---- MODULE Spec2Model ----
(***************************************************************************)
(* A model of transcription.py: class Transcription, the phonetic          *)
(* transcription of a Czech utterance.                                     *)
(*                                                                         *)
(* A Python str is modelled as a sequence of symbols, one symbol per code  *)
(* point.  A symbol is written in ASCII: a letter of the basic alphabet    *)
(* stands for itself, the others are transliterated:                       *)
(*   "c^" c-caron  "s^" s-caron  "z^" z-caron  "r^" r-caron  "e^" e-caron  *)
(*   "n^" n-caron  "t^" t-caron  "d^" d-caron                              *)
(*   "a'" "e'" "i'" "o'" "u'" "y'" the vowels with acute, "u*" u-ring      *)
(*   "dz" U+0292 (ezh)    "dZ" U+026E (lezh, stands for ezh-breve)         *)
(*   "gh" U+0263 (gamma)  "ng" U+014B (eng)   "mg" U+0271 (m with hook)    *)
(*   " " the space, "TAB" the tabulator, "." a punctuation mark,           *)
(*   "A" the capital letter a.                                             *)
(***************************************************************************)
EXTENDS Naturals, Sequences, FiniteSets

VARIABLES
  call,            \* the method called: the constructor's _transcribe, or a stage
  input,           \* self.ort (line 33), or the argument of the stage
  pc,              \* the statement _transcribe or _voicing_assim is at
  fon,             \* fon of _transcribe (lines 38-50); the value a stage returns
  string,          \* the parameter of _voicing_assim (line 105)
  result,          \* result of _voicing_assim (line 115)
  previous_phone,  \* previous_phone of _voicing_assim (line 138)
  k                \* how many characters of reversed(string) have been read

vars == <<call, input, pc, fon, string, result, previous_phone, k>>

\* ------------------------------------------------------------------ bounds

\* The longest string handed to _voicing_assim called on its own.
MaxLen == 4

\* The longest raw string handed to normalize, _postprocess and the constructor.
MaxRaw == 4

\* ----------------------------------------------------------------- helpers

Range(s) == {s[i] : i \in 1..Len(s)}

Strings(A, n) == UNION {[1..m -> A] : m \in 0..n}

\* The value of a local variable that has not been assigned yet.
Unbound == "unbound"

\* ------------------------------------------------------------ symbol tables

_trigger_devoicing == <<"p", "t", "t^", "k", "s", "s^", "c", "c^", "x", "x", "f">>

_devoiced == _trigger_devoicing

\* A variant of _trigger_voicing: h and gamma in the other order.
_trigger_voicing_swapped == <<"b", "d", "d^", "g", "z", "z^", "dz", "dZ", "gh", "h">>

_trigger_voicing == <<"b", "d", "d^", "g", "z", "z^", "dz", "dZ", "h", "gh">>

_voiced == _trigger_voicing \o <<"v">>

\* str.maketrans(from, to): a dict filled position by position, so a key that
\* occurs twice in from keeps the value of its last occurrence.
maketrans(from, to) ==
  [c \in Range(from) |->
     to[CHOOSE i \in 1..Len(from) :
          /\ from[i] = c
          /\ \A j \in 1..Len(from) : from[j] = c => j <= i]]

\* char.translate(table) for a one-character string.
translate(char, table) == IF char \in DOMAIN table THEN table[char] ELSE char

_devoiced2voiced == maketrans(_devoiced, _voiced)

_voiced2devoiced == maketrans(_voiced, _devoiced)

\* char in self._voiced, for a one-character string.
In(char, str) == char \in Range(str)

\* ---------------------------------------------------------------- alphabet

Whitespace == {" ", "TAB"}

\* The characters \W matches: the whitespace and the punctuation.
NonWord == Whitespace \cup {"."}

\* The characters \w matches: the letters.
Word ==
  {"a", "b", "c", "d", "e", "f", "g", "h", "i", "j", "k", "l", "m", "n", "o",
   "p", "q", "r", "s", "t", "u", "v", "w", "x", "y", "z", "A",
   "c^", "s^", "z^", "r^", "e^", "n^", "t^", "d^",
   "a'", "e'", "i'", "o'", "u'", "y'", "u*",
   "dz", "dZ", "gh", "ng", "mg"}

\* The characters \S matches.
NonSpace == (Word \cup NonWord) \ Whitespace

\* ------------------------------------------------------------------- re.sub

\* An item of a replacement template: a literal character, or \n written as
\* the position in the pattern of the character the group captured.
Lit(c) == [lit |-> c]

Grp(n) == [grp |-> n]

\* A pattern: an optional leading \b, one character class per position, the
\* last of them optional (x?) when opt is set; and its replacement template.
Rx(b, els, opt, rep) == [b |-> b, els |-> els, opt |-> opt, rep |-> rep]

\* A pattern and a replacement without metacharacters.
Plain(pat, rep) ==
  Rx(FALSE, [i \in 1..Len(pat) |-> {pat[i]}], FALSE, [i \in 1..Len(rep) |-> Lit(rep[i])])

\* \b before position i: a word character on exactly one side.
AtBoundary(s, i) == (i > 1 /\ s[i - 1] \in Word) # (i <= Len(s) /\ s[i] \in Word)

Matches(s, i, els, n) ==
  /\ i + n - 1 <= Len(s)
  /\ \A j \in 1..n : s[i + j - 1] \in els[j]

\* The length of the match of r that starts at position i, 0 when there is
\* none; an optional last element is matched greedily.
MatchLen(r, s, i) ==
  IF r.b /\ ~AtBoundary(s, i) THEN 0
  ELSE IF Matches(s, i, r.els, Len(r.els)) THEN Len(r.els)
  ELSE IF r.opt /\ Matches(s, i, r.els, Len(r.els) - 1) THEN Len(r.els) - 1
  ELSE 0

\* The replacement template expanded for the match at position i.
Expand(r, s, i) ==
  [j \in 1..Len(r.rep) |->
     IF "lit" \in DOMAIN r.rep[j] THEN r.rep[j].lit ELSE s[i + r.rep[j].grp - 1]]

\* The match of r that starts at position j reaches over position i.
Covers(r, s, j, i) == j < i /\ MatchLen(r, s, j) > i - j

\* The positions from which a match could reach over position i.
Before(r, i) == {j \in 1..(i - 1) : j > i - Len(r.els)}

\* re.sub scans from left to right and takes the leftmost matches that do not
\* overlap: the match at position i is taken unless a taken match reaches
\* over i.
RECURSIVE Taken(_, _, _)
Taken(r, s, i) ==
  /\ MatchLen(r, s, i) > 0
  /\ \A j \in Before(r, i) : ~(Covers(r, s, j, i) /\ Taken(r, s, j))

\* What position i of s contributes to the result: the replacement when a
\* taken match starts there, nothing inside a taken match, else its character.
Piece(r, s, i) ==
  IF Taken(r, s, i) THEN Expand(r, s, i)
  ELSE IF \E j \in Before(r, i) : Covers(r, s, j, i) /\ Taken(r, s, j) THEN <<>>
  ELSE <<s[i]>>

\* The concatenation of pieces[lo], ..., pieces[hi].
RECURSIVE Concat(_, _, _)
Concat(pieces, lo, hi) ==
  IF lo > hi THEN <<>>
  ELSE IF lo = hi THEN pieces[lo]
  ELSE Concat(pieces, lo, (lo + hi) \div 2) \o Concat(pieces, (lo + hi) \div 2 + 1, hi)

\* re.sub(pattern, repl, s): the non-overlapping matches in s, found from left
\* to right, replaced.
sub(r, s) == Concat([i \in 1..Len(s) |-> Piece(r, s, i)], 1, Len(s))

\* The substitutions lo to hi of a method applied one after the other, each to
\* the whole result of the one before.  (Len(t) >= 0 holds of every string:
\* the test makes TLC compute t before it goes on.)
RECURSIVE Rewrite(_, _, _, _)
Rewrite(rules, lo, hi, s) ==
  IF lo > hi THEN s
  ELSE IF lo = hi THEN sub(rules[lo], s)
  ELSE LET t == Rewrite(rules, lo, (lo + hi) \div 2, s)
       IN IF Len(t) >= 0 THEN Rewrite(rules, (lo + hi) \div 2 + 1, hi, t) ELSE t

\* All the substitutions of a method.
RewriteAll(rules, s) == Rewrite(rules, 1, Len(rules), s)

\* ---------------------------------------------------------------- normalize

\* str.casefold(), one character at a time.
casefold(s) == [i \in 1..Len(s) |-> IF s[i] = "A" THEN "a" ELSE s[i]]

\* Line 59: re.sub(r"(\w)(\W)", r"\1 \2", ...).
WordThenNonWord == Rx(FALSE, <<Word, NonWord>>, FALSE, <<Grp(1), Lit(" "), Grp(2)>>)

\* A variant of NonWordThenWord: no space is inserted.
NonWordThenWord_NoSpace == Rx(FALSE, <<NonWord, Word>>, FALSE, <<Grp(1), Grp(2)>>)

\* Line 60: re.sub(r"(\W)(\w)", r"\1 \2", ...).
NonWordThenWord == Rx(FALSE, <<NonWord, Word>>, FALSE, <<Grp(1), Lit(" "), Grp(2)>>)

\* A variant of CollapseWhitespace: \s for \s+, each whitespace character
\* becomes a space of its own.
CollapseWhitespace_Each(s) == [i \in 1..Len(s) |-> IF s[i] \in Whitespace THEN " " ELSE s[i]]

\* Line 61: re.sub(r"\s+", " ", ...): every maximal run of whitespace
\* becomes one space.
CollapseWhitespace(s) ==
  Concat([i \in 1..Len(s) |->
            IF s[i] \notin Whitespace THEN <<s[i]>>
            ELSE IF i > 1 /\ s[i - 1] \in Whitespace THEN <<>>
            ELSE <<" ">>],
         1, Len(s))

\* Line 62: str.strip(): without the leading and the trailing whitespace.
strip(s) ==
  LET inked == {i \in 1..Len(s) : s[i] \notin Whitespace}
  IN IF inked = {} THEN <<>>
     ELSE SubSeq(s, CHOOSE i \in inked : \A j \in inked : i <= j,
                    CHOOSE i \in inked : \A j \in inked : j <= i)

normalize(s) ==
  strip(CollapseWhitespace(sub(NonWordThenWord, sub(WordThenNonWord, casefold(s)))))

\* ------------------------------------------------------------ rule tables

\* Lines 64-75: the substitutions of _e-caron, in the order of the source.
_e_caron_rules ==
  <<
    Rx(FALSE, <<{"b", "p", "f", "v"}, {"e^"}>>, FALSE, <<Grp(1), Lit("j"), Lit("e")>>),
    Plain(<<"d", "e^">>, <<"d^", "e">>),
    Plain(<<"t", "e^">>, <<"t^", "e">>),
    Plain(<<"n", "e^">>, <<"n^", "e">>),
    Plain(<<"m", "e^">>, <<"m", "n^", "e">>),
    Plain(<<"e^">>, <<"j", "e">>)
  >>

\* Lines 77-86: the substitutions of _i_i-acute, in the order of the source.
_i_i_acute_rules ==
  <<
    Plain(<<"d", "i">>, <<"d^", "i">>),
    Plain(<<"t", "i">>, <<"t^", "i">>),
    Plain(<<"n", "i">>, <<"n^", "i">>),
    Plain(<<"d", "i'">>, <<"d^", "i'">>),
    Plain(<<"t", "i'">>, <<"t^", "i'">>),
    Plain(<<"n", "i'">>, <<"n^", "i'">>)
  >>

\* Lines 88-96: the substitutions of _collapse_expand, in the order of the source.
_collapse_expand_rules ==
  <<
    Plain(<<"x">>, <<"k", "s">>),
    Rx(FALSE, <<{"q"}, {"u"}>>, TRUE, <<Lit("k"), Lit("v")>>),
    Plain(<<"c", "h">>, <<"x">>),
    Plain(<<"d", "z">>, <<"dz">>),
    Plain(<<"d", "z^">>, <<"dZ">>)
  >>

\* Lines 98-103: the substitutions of _foreign, in the order of the source.
_foreign_rules ==
  <<
    Plain(<<"w">>, <<"v">>)
  >>

\* Lines 142-149: the substitutions of _unify, in the order of the source.
_unify_rules ==
  <<
    Plain(<<"u*">>, <<"u'">>),
    Plain(<<"y">>, <<"i">>),
    Plain(<<"y'">>, <<"i'">>)
  >>

\* Lines 151-174: the substitutions of _heuristic, in the order of the source.
_heuristic_rules ==
  <<
    Plain(<<"n", "k">>, <<"ng", "k">>),
    Plain(<<"n", "g">>, <<"ng", "g">>),
    Plain(<<"m", "v">>, <<"mg", "v">>),
    Plain(<<"m", "f">>, <<"mg", "f">>),
    Plain(<<"n", "t^">>, <<"n^", "t^">>),
    Plain(<<"n", "d^">>, <<"n^", "d^">>),
    Plain(<<"n", "n^">>, <<"n^">>),
    Plain(<<"c", "c">>, <<"c">>),
    Plain(<<"d", "d">>, <<"d">>),
    Plain(<<"j", "j">>, <<"j">>),
    Plain(<<"k", "k">>, <<"k">>),
    Plain(<<"l", "l">>, <<"l">>),
    Plain(<<"n", "n">>, <<"n">>),
    Plain(<<"m", "m">>, <<"m">>),
    Plain(<<"s", "s">>, <<"s">>),
    Plain(<<"t", "t">>, <<"t">>),
    Plain(<<"z", "z">>, <<"z">>),
    Plain(<<"c^", "c^">>, <<"c^">>),
    Plain(<<"s^", "s^">>, <<"s^">>)
  >>

\* Lines 176-180: the substitutions of _hiatus, in the order of the source.
_hiatus_rules ==
  <<
    Rx(FALSE, <<{"i", "i'"}, {"a", "e", "i", "o", "u", "a'", "e'", "i'", "o'", "u'"}>>, FALSE, <<Grp(1), Lit("j"), Grp(2)>>)
  >>

\* Lines 182-306: the substitutions of _init_scp, in the order of the source.
_init_scp_rules ==
  <<
    Plain(<<"c", "c", "i", "t", "t">>, <<"c", "e'", "c", "e'", "i'", "t", "e'", "t", "e'">>),
    Plain(<<"n", "i", "s", "m">>, <<"n", "y", "z", "m">>),
    Plain(<<"n", "i", "s", "t">>, <<"n", "y", "s", "t">>),
    Plain(<<"a", "n", "t", "i">>, <<"a", "n", "t", "y">>),
    Plain(<<"a", "k", "t", "i">>, <<"a", "k", "t", "y">>),
    Plain(<<"a", "t", "i", "k">>, <<"a", "t", "y", "k">>),
    Plain(<<"t", "i", "c", "k">>, <<"t", "y", "c", "k">>),
    Plain(<<"k", "a", "n", "d", "i">>, <<"k", "a", "n", "d", "y">>),
    Plain(<<"n", "i", "e">>, <<"n", "y", "e">>),
    Plain(<<"n", "i", "i">>, <<"n", "y", "i">>),
    Plain(<<"a", "r", "k", "t", "i">>, <<"a", "r", "k", "t", "y">>),
    Plain(<<"a", "t", "r", "a", "k", "t", "i">>, <<"a", "t", "r", "a", "k", "t", "y">>),
    Plain(<<"a", "u", "d", "i">>, <<"a", "u", "d", "y">>),
    Plain(<<"a", "u", "t", "o", "m", "a", "t", "i">>, <<"a", "u", "t", "o", "m", "a", "t", "y">>),
    Plain(<<"c", "a", "u", "s", "a">>, <<"k", "a", "u", "z", "a">>),
    Plain(<<"c", "e", "l", "s", "i", "a">>, <<"c", "e", "l", "z", "i", "a">>),
    Plain(<<"c", "h", "i", "l">>, <<"c^", "i", "l">>),
    Plain(<<"d", "a", "n", "i", "h">>, <<"d", "a", "n", "y", "h">>),
    Plain(<<"e", "f", "e", "k", "t", "i", "v">>, <<"e", "f", "e", "k", "t", "y", "v">>),
    Plain(<<"f", "i", "n", "i", "t", "i">>, <<"f", "i", "n", "y", "t", "y">>),
    Plain(<<"d", "e", "a", "l", "e", "r">>, <<"d", "y'", "l", "e", "r">>),
    Plain(<<"d", "i", "a", "g">>, <<"d", "y", "a", "g">>),
    Plain(<<"d", "i", "e", "t">>, <<"d", "y", "e", "t">>),
    Plain(<<"d", "i", "f">>, <<"d", "y", "f">>),
    Plain(<<"d", "i", "g">>, <<"d", "y", "g">>),
    Plain(<<"d", "i", "k", "t">>, <<"d", "y", "k", "t">>),
    Plain(<<"d", "i", "l", "e", "t">>, <<"d", "y", "l", "e", "t">>),
    Plain(<<"d", "i", "p", "l">>, <<"d", "y", "p", "l">>),
    Plain(<<"d", "i", "r", "i", "g">>, <<"d", "y", "r", "y", "g">>),
    Plain(<<"d", "i", "s", "k">>, <<"d", "y", "s", "k">>),
    Plain(<<"d", "i", "s", "p", "l", "a", "y">>, <<"d", "y", "s", "p", "l", "e", "j">>),
    Plain(<<"d", "i", "s", "p">>, <<"d", "y", "s", "p">>),
    Plain(<<"d", "i", "s", "t">>, <<"d", "y", "s", "t">>),
    Plain(<<"d", "i", "v", "i", "d", "e">>, <<"d", "y", "v", "i", "d", "e">>),
    Plain(<<"d", "u", "k", "t", "i">>, <<"d", "u", "k", "t", "y">>),
    Plain(<<"e", "d", "i", "c">>, <<"e", "d", "y", "c">>),
    Plain(<<"e", "r", "r", "o", "r">>, <<"e", "r", "o", "r">>),
    Rx(TRUE, <<{"e"}, {"x"}, {"a", "e", "i", "o", "u", "a'", "e'", "i'", "o'", "u'", "u*"}>>, FALSE, <<Lit("e"), Lit("g"), Lit("z"), Grp(3)>>),
    Plain(<<"e", "l", "e", "k", "t", "r", "o", "n", "i">>, <<"e", "l", "e", "k", "t", "r", "o", "n", "y">>),
    Plain(<<"e", "n", "e", "r", "g", "e", "t", "i", "k">>, <<"e", "n", "e", "r", "g", "e", "t", "y", "k">>),
    Plain(<<"e", "t", "i", "k">>, <<"e", "t", "y", "k">>),
    Plain(<<"f", "e", "m", "i", "n", "i">>, <<"f", "e", "m", "i", "n", "y">>),
    Plain(<<"f", "i", "n", "i", "s^">>, <<"f", "i", "n", "y", "s^">>),
    Plain(<<"m", "o", "n", "i", "e">>, <<"m", "o", "n", "y", "e">>),
    Plain(<<"g", "e", "n", "e", "t", "i">>, <<"g", "e", "n", "e", "t", "y">>),
    Plain(<<"g", "i", "e", "n", "i">>, <<"g", "i", "e", "n", "y">>),
    Plain(<<"i", "m", "u", "n", "i">>, <<"i", "m", "u", "n", "y">>),
    Plain(<<"i", "n", "d", "i", "v">>, <<"i", "n", "d", "y", "v">>),
    Plain(<<"i", "n", "i", "c", "i">>, <<"i", "n", "y", "c", "i">>),
    Plain(<<"i", "n", "v", "e", "s", "t", "i">>, <<"i", "n", "v", "e", "s", "t", "y">>),
    Plain(<<"k", "a", "r", "a", "t", "i">>, <<"k", "a", "r", "a", "t", "y">>),
    Plain(<<"k", "a", "r", "d", "i">>, <<"k", "a", "r", "d", "y">>),
    Plain(<<"k", "l", "a", "u", "s">>, <<"k", "l", "a", "u", "z">>),
    Plain(<<"k", "o", "m", "u", "n", "i">>, <<"k", "o", "m", "u", "n", "y">>),
    Plain(<<"k", "o", "n", "d", "i">>, <<"k", "o", "n", "d", "y">>),
    Plain(<<"k", "r", "e", "d", "i", "t">>, <<"k", "r", "e", "d", "y", "t">>),
    Plain(<<"k", "r", "i", "t", "i">>, <<"k", "r", "i", "t", "y">>),
    Plain(<<"k", "o", "m", "o", "d", "i", "t">>, <<"k", "o", "m", "o", "d", "y", "t">>),
    Plain(<<"k", "o", "n", "s", "o", "r">>, <<"k", "o", "n", "z", "o", "r">>),
    Plain(<<"l", "e", "a", "s", "i", "n", "g">>, <<"l", "i'", "z", "i", "n", "g">>),
    Plain(<<"g", "i", "t", "i">>, <<"g", "i", "t", "y">>),
    Plain(<<"m", "e", "d", "i">>, <<"m", "e", "d", "y">>),
    Plain(<<"m", "o", "t", "i", "v">>, <<"m", "o", "t", "y", "v">>),
    Plain(<<"m", "a", "n", "a", "g">>, <<"m", "e", "n", "e", "d", "z^">>),
    Plain(<<"n", "s", "t", "i">>, <<"n", "s", "t", "y">>),
    Plain(<<"t", "e", "m", "a", "t", "i">>, <<"t", "e", "m", "a", "t", "y">>),
    Plain(<<"m", "i", "n", "i">>, <<"m", "i", "n", "y">>),
    Plain(<<"m", "i", "n", "u", "s">>, <<"m", "i'", "n", "u", "s">>),
    Plain(<<"i", "n", "g">>, <<"y", "n", "g">>),
    Plain(<<"g", "a", "t", "i", "v">>, <<"g", "a", "t", "y", "v">>),
    Plain(<<"m", "a", "t", "i">>, <<"m", "a", "t", "y">>),
    Plain(<<"m", "a", "n", "i", "p">>, <<"m", "a", "n", "y", "p">>),
    Plain(<<"m", "o", "d", "e", "r", "n", "i">>, <<"m", "o", "d", "e", "r", "n", "y">>),
    Plain(<<"o", "r", "g", "a", "n", "i">>, <<"o", "r", "g", "a", "n", "y">>),
    Plain(<<"o", "p", "t", "i", "m">>, <<"o", "p", "t", "y", "m">>),
    Plain(<<"p", "a", "n", "i", "c", "k">>, <<"p", "a", "n", "y", "c", "k">>),
    Plain(<<"p", "e", "d", "i", "a", "t", "r">>, <<"p", "e", "d", "y", "a", "t", "r">>),
    Plain(<<"p", "e", "r", "v", "i", "t", "i">>, <<"p", "e", "r", "v", "i", "t", "y">>),
    Plain(<<"p", "o", "l", "i", "t", "i">>, <<"p", "o", "l", "i", "t", "y">>),
    Plain(<<"p", "o", "z", "i", "t">>, <<"p", "o", "z", "y", "t">>),
    Plain(<<"p", "r", "i", "v", "a", "t", "i">>, <<"p", "r", "i", "v", "a", "t", "y">>),
    Plain(<<"p", "r", "o", "s", "t", "i", "t", "u">>, <<"p", "r", "o", "s", "t", "y", "t", "u">>),
    Plain(<<"r", "a", "d", "i", "k">>, <<"r", "a", "d", "y", "k">>),
    Rx(TRUE, <<{"r"}, {"a"}, {"d"}, {"i"}, {"o"}>>, FALSE, <<Lit("r"), Lit("a"), Lit("d"), Lit("y"), Lit("o")>>),
    Plain(<<"r", "e", "l", "a", "t", "i", "v">>, <<"r", "e", "l", "a", "t", "y", "v">>),
    Plain(<<"r", "e", "s", "t", "i", "t", "u">>, <<"r", "e", "s", "t", "y", "t", "u">>),
    Plain(<<"r", "o", "c", "k">>, <<"r", "o", "k">>),
    Plain(<<"r", "u", "t", "i", "n">>, <<"r", "u", "t", "y", "n">>),
    Rx(TRUE, <<{"r"}, {"a'"}, {"d"}, {"i"}, NonSpace>>, FALSE, <<Lit("r"), Lit("a'"), Lit("d"), Lit("y"), Grp(5)>>),
    Plain(<<"s", "h", "o", "p">>, <<"s^", "o", "p">>),
    Rx(TRUE, <<{"s"}, {"h"}, {"o"}>>, FALSE, <<Lit("s"), Lit("c"), Lit("h"), Lit("o")>>),
    Plain(<<"s", "o", "f", "t", "w", "a", "r">>, <<"s", "o", "f", "t", "v", "e'", "r">>),
    Plain(<<"s", "o", "r", "t", "i", "m">>, <<"s", "o", "r", "t", "y", "m">>),
    Plain(<<"s", "p", "e", "k", "t", "i", "v">>, <<"s", "p", "e", "k", "t", "y", "v">>),
    Plain(<<"s", "u", "p", "e", "r", "l", "a", "t", "i", "v">>, <<"s", "u", "p", "e", "r", "l", "a", "t", "y", "v">>),
    Plain(<<"n", "j">>, <<"n^">>),
    Plain(<<"s", "t", "a", "t", "i", "s", "t", "i">>, <<"s", "t", "a", "t", "y", "s", "t", "y">>),
    Plain(<<"s", "t", "i", "k">>, <<"s", "t", "y", "k">>),
    Plain(<<"s", "t", "i", "m", "u", "l">>, <<"s", "t", "y", "m", "u", "l">>),
    Plain(<<"s", "t", "u", "d", "i">>, <<"s", "t", "u", "d", "y">>),
    Plain(<<"t", "e", "c", "h", "n", "i">>, <<"t", "e", "c", "h", "n", "y">>),
    Plain(<<"t", "e", "l", "e", "c", "o", "m">>, <<"t", "e", "l", "e", "k", "o", "m">>),
    Plain(<<"t", "e", "l", "e", "f", "o", "n", "i">>, <<"t", "e", "l", "e", "f", "o", "n", "y">>),
    Plain(<<"t", "e", "t", "i", "k">>, <<"t", "e", "t", "y", "k">>),
    Plain(<<"t", "e", "x", "t", "i", "l">>, <<"t", "e", "x", "t", "y", "l">>),
    Plain(<<"t", "i", "b", "e", "t">>, <<"t", "y", "b", "e", "t">>),
    Plain(<<"t", "i", "r", "a", "n", "y">>, <<"t", "y", "r", "a", "n", "y">>),
    Plain(<<"t", "i", "t", "u", "l">>, <<"t", "y", "t", "u", "l">>),
    Plain(<<"t", "r", "a", "d", "i">>, <<"t", "r", "a", "d", "y">>),
    Plain(<<"u", "n", "i", "v", "e", "r">>, <<"u", "n", "y", "v", "e", "r">>),
    Plain(<<"v", "e", "n", "t", "i">>, <<"v", "e", "n", "t", "y">>),
    Plain(<<"v", "e", "r", "t", "i", "k">>, <<"v", "e", "r", "t", "y", "k">>)
  >>

\* A variant of _postprocess_rules: the placeholder x is restored, the compact
\* symbol is left in place.
_postprocess_rules_NoExpansion ==
  <<
    Plain(<<"x">>, <<"c", "h">>)
  >>

\* Lines 308-314: the substitutions of _postprocess, in the order of the source.
_postprocess_rules ==
  <<
    Plain(<<"dZ">>, <<"dz", "dz">>),
    Plain(<<"x">>, <<"c", "h">>)
  >>

\* -------------------------------------------------------------- _transcribe

\* A method that returns its argument rewritten: called by _transcribe, which
\* goes on to the next method, or on its own.
Stage(name, value, next) ==
  /\ pc = name
  /\ fon' = value
  /\ pc' = (IF call = "_transcribe" THEN next ELSE "done")
  /\ UNCHANGED <<call, input, string, result, previous_phone, k>>

Normalize == Stage("normalize", normalize(fon), "_init_scp")

InitScp ==
  Stage("_init_scp", RewriteAll(_init_scp_rules, fon), "_foreign")

Foreign ==
  Stage("_foreign", RewriteAll(_foreign_rules, fon), "_collapse_expand")

CollapseExpand ==
  Stage("_collapse_expand",
        RewriteAll(_collapse_expand_rules, fon), "_e_caron")

ECaron ==
  Stage("_e_caron", RewriteAll(_e_caron_rules, fon), "_i_i_acute")

IIAcute ==
  Stage("_i_i_acute", RewriteAll(_i_i_acute_rules, fon), "_voicing_assim")

Unify == Stage("_unify", RewriteAll(_unify_rules, fon), "_hiatus")

Hiatus == Stage("_hiatus", RewriteAll(_hiatus_rules, fon), "_heuristic")

Heuristic ==
  Stage("_heuristic", RewriteAll(_heuristic_rules, fon), "_postprocess")

_postprocess(s) == RewriteAll(_postprocess_rules, s)

Postprocess == Stage("_postprocess", _postprocess(fon), "done")

\* ----------------------------------------------------------- _voicing_assim

\* A variant of WordFinal: no default devoicing at the end of a word.
WordFinal_Unchanged(res, char) == char

\* Lines 121-122: at the end of a word the default pronunciation is unvoiced.
WordFinal(res, char) ==
  IF res # <<>> /\ res[1] = " " /\ In(char, _voiced)
    THEN translate(char, _voiced2devoiced)
    ELSE char

\* A variant of Assimilate: the last character of the string is not devoiced.
Assimilate_NoFinalDevoicing(res, prev, char) ==
  IF res = <<>>
    THEN <<char>>
  ELSE IF In(prev, _trigger_devoicing) /\ In(char, _voiced)
    THEN <<translate(char, _voiced2devoiced)>> \o res
  ELSE IF In(prev, _trigger_voicing) /\ In(char, _devoiced)
    THEN <<translate(char, _devoiced2voiced)>> \o res
  ELSE <<char>> \o res

\* A variant of Assimilate: a devoicing trigger does not devoice what precedes it.
Assimilate_NoDevoicing(res, prev, char) ==
  IF res = <<>> /\ In(char, _voiced)
    THEN <<translate(char, _voiced2devoiced)>>
  ELSE IF res = <<>>
    THEN <<char>>
  ELSE IF In(prev, _trigger_voicing) /\ In(char, _devoiced)
    THEN <<translate(char, _devoiced2voiced)>> \o res
  ELSE <<char>> \o res

\* Lines 124-133: the new value of result.
Assimilate(res, prev, char) ==
  IF res = <<>> /\ In(char, _voiced)
    THEN <<translate(char, _voiced2devoiced)>>
  ELSE IF res = <<>>
    THEN <<char>>
  ELSE IF In(prev, _trigger_devoicing) /\ In(char, _voiced)
    THEN <<translate(char, _voiced2devoiced)>> \o res
  ELSE IF In(prev, _trigger_voicing) /\ In(char, _devoiced)
    THEN <<translate(char, _devoiced2voiced)>> \o res
  ELSE <<char>> \o res

\* A variant of PhoneIndex: the space between two words is not skipped.
PhoneIndex_NoSkip(res) == 1

\* Line 138, the index read: result[1] if result[0] == " " else result[0].
PhoneIndex(res) == IF res[1] = " " THEN 2 ELSE 1

\* reversed(string): the character the k-th iteration reads.
Reversed(str, n) == str[Len(str) + 1 - n]

\* Line 115: result = "".
VoicingAssimBegin ==
  /\ pc = "_voicing_assim"
  /\ string' = fon
  /\ result' = <<>>
  /\ previous_phone' = Unbound
  /\ k' = 0
  /\ pc' = "loop"
  /\ UNCHANGED <<call, input, fon>>

\* Lines 118-138: one iteration of the loop.  Reading result[1] of a
\* one-character result raises IndexError.
VoicingAssimStep ==
  /\ pc = "loop"
  /\ k < Len(string)
  /\ LET char == WordFinal(result, Reversed(string, k + 1))
         res  == Assimilate(result, previous_phone, char)
     IN /\ result' = res
        /\ k' = k + 1
        /\ IF PhoneIndex(res) <= Len(res)
             THEN /\ previous_phone' = res[PhoneIndex(res)]
                  /\ pc' = "loop"
             ELSE /\ previous_phone' = previous_phone
                  /\ pc' = "IndexError"
  /\ UNCHANGED <<call, input, fon, string>>

\* Line 140: return result.
VoicingAssimReturn ==
  /\ pc = "loop"
  /\ k = Len(string)
  /\ fon' = result
  /\ pc' = (IF call = "_transcribe" THEN "_unify" ELSE "done")
  /\ UNCHANGED <<call, input, string, result, previous_phone, k>>

\* ------------------------------------------------------------ specification

\* The symbols of the strings handed to _voicing_assim in isolation.
AssimAlphabet == {"a", " ", "b", "p", "h", "x", "gh", "v", "c^"}

\* The symbols of the raw strings handed to normalize and to the constructor.
RawAlphabet == {"a", "A", "b", ".", " ", "TAB"}

\* The symbols of the strings handed to _postprocess in isolation.
PostAlphabet == {"dZ", "x", "dz", "c", "h", "a"}

\* The sentence of test_complex and the transcription the test expects.
Sentence ==
  <<"h", "r^", "i'", "c", "h", " ", "b", "y", " ", "z", "a", " ", "t", "y", " ",
    "c", "h", "o", "u", "t", "k", "y", " ", "s", "t", "a'", "l", " ",
    "l", "e", "c^", " ", "d", "o", "b", "r^", "e">>

fon_expected ==
  <<"h", "r^", "i'", "gh", " ", "b", "i", " ", "z", "a", " ", "t", "i", " ",
    "c", "h", "o", "u", "t", "k", "i", " ", "s", "t", "a'", "l", " ",
    "l", "e", "dz", "dz", " ", "d", "o", "b", "r^", "e">>

\* Phrases that the substitutions with \b, with a character class and with an
\* optional character rewrite: "exil", "quo vadis", "shoda radia",
\* "di'te^ ra'dius".
Phrases ==
  {<<"e", "x", "i", "l">>,
   <<"q", "u", "o", " ", "v", "a", "d", "i", "s">>,
   <<"s", "h", "o", "d", "a", " ", "r", "a", "d", "i", "a">>,
   <<"d", "i'", "t", "e^", " ", "r", "a'", "d", "i", "u", "s">>}

\* The entry points: a method called on its own, or the constructor, which
\* runs _transcribe on self.ort.
Calls == {"_voicing_assim", "normalize", "_postprocess", "_transcribe"}

Inputs(c) ==
  CASE c = "_voicing_assim" -> Strings(AssimAlphabet, MaxLen)
    [] c = "normalize" -> Strings(RawAlphabet, MaxRaw)
    [] c = "_postprocess" -> Strings(PostAlphabet, MaxRaw)
    [] c = "_transcribe" -> Strings(RawAlphabet, MaxRaw) \cup {Sentence} \cup Phrases

Init ==
  /\ call \in Calls
  /\ input \in Inputs(call)
  /\ pc = (IF call = "_transcribe" THEN "normalize" ELSE call)
  /\ fon = input
  /\ string = <<>>
  /\ result = <<>>
  /\ previous_phone = Unbound
  /\ k = 0

Next ==
  \/ Normalize
  \/ InitScp
  \/ Foreign
  \/ CollapseExpand
  \/ ECaron
  \/ IIAcute
  \/ VoicingAssimBegin
  \/ VoicingAssimStep
  \/ VoicingAssimReturn
  \/ Unify
  \/ Hiatus
  \/ Heuristic
  \/ Postprocess

Spec == Init /\ [][Next]_vars

\* ------------------------------------------------------------------ claims

\* _voicing_assim has returned: string is what it was given, result what it
\* returned.
AssimReturned ==
  /\ call \in {"_voicing_assim", "_transcribe"}
  /\ pc \in {"_unify", "_hiatus", "_heuristic", "_postprocess", "done"}

SingleSpaced(str) == \A i \in 1..(Len(str) - 1) : ~(str[i] = " " /\ str[i + 1] = " ")

NoTrailingSpace(str) == str = <<>> \/ str[Len(str)] # " "

\* The phone that follows position i of the output: the next character, or the
\* one after it when the next character is a space.
FollowingPhone(out, i) == IF out[i + 1] = " " THEN out[i + 2] ELSE out[i + 1]

\* C2 as stated: in a single-space separated input that does not end in a
\* space, a voiced character before a space is emitted as a member of the
\* devoiced set, whatever the following word begins with.
C2_WordFinalAlwaysDevoiced ==
  (AssimReturned /\ SingleSpaced(string) /\ NoTrailingSpace(string)) =>
    \A i \in 1..(Len(string) - 1) :
      (In(string[i], _voiced) /\ string[i + 1] = " ") => In(result[i], _devoiced)

\* C2 as amended: in a single-space separated input that does not end in a
\* space, a voiced character before a space is emitted as its devoiced
\* counterpart, unless the following word begins, in the output, with a voicing
\* trigger: then it is emitted as that devoiced counterpart voiced again.
C2_WordFinalDevoicedUnlessVoicingFollows ==
  (AssimReturned /\ SingleSpaced(string) /\ NoTrailingSpace(string)) =>
    /\ Len(result) = Len(string)
    /\ \A i \in 1..(Len(string) - 1) :
         (In(string[i], _voiced) /\ string[i + 1] = " ") =>
           LET d == translate(string[i], _voiced2devoiced)
           IN /\ In(d, _devoiced)
              /\ result[i] = IF In(result[i + 2], _trigger_voicing)
                               THEN translate(d, _devoiced2voiced)
                               ELSE d

\* A voiced character before a space, followed by a word that begins with no
\* voicing trigger, has been emitted devoiced.
C2_Witness ==
  /\ AssimReturned /\ SingleSpaced(string) /\ NoTrailingSpace(string)
  /\ \E i \in 1..(Len(string) - 1) :
       /\ In(string[i], _voiced) /\ string[i + 1] = " "
       /\ ~In(result[i + 2], _trigger_voicing)
       /\ In(result[i], _devoiced)

\* C3 as stated: the output is as long as the input and each of its characters
\* is the input character, or its image under the voiced-to-devoiced table, or
\* its image under the devoiced-to-voiced table.
C3_VoicingSetClosure ==
  AssimReturned =>
    /\ Len(result) = Len(string)
    /\ \A i \in 1..Len(string) :
         result[i] \in {string[i],
                        translate(string[i], _voiced2devoiced),
                        translate(string[i], _devoiced2voiced)}

\* C4: when the input ends in a character of the voiced set, the output ends in
\* the devoiced counterpart of that character.
C4_UtteranceFinalDevoicing ==
  (AssimReturned /\ string # <<>> /\ In(string[Len(string)], _voiced)) =>
    /\ Len(result) = Len(string)
    /\ result[Len(result)] = translate(string[Len(string)], _voiced2devoiced)
    /\ In(result[Len(result)], _devoiced)

\* An input of several characters that ends in a voiced one has been returned.
C4_Witness ==
  /\ AssimReturned
  /\ Len(string) > 1
  /\ In(string[Len(string)], _voiced)
  /\ In(string[Len(string) - 1], _voiced)
  /\ result[Len(result)] = translate(string[Len(string)], _voiced2devoiced)

\* C6 as stated: _voicing_assim called in isolation never raises.
C6_NeverRaises == call = "_voicing_assim" => pc # "IndexError"

\* C10: in the output for a single-space separated input that does not end in
\* a space, no character of the voiced set stands before a devoicing trigger
\* and no character of the devoiced set stands before a voicing trigger, the
\* following phone being taken across one space; and while the scan runs, the
\* context it uses is a character of the output built so far, never a space.
C10_VoicingConsistent ==
  (SingleSpaced(string) /\ NoTrailingSpace(string)) =>
    /\ AssimReturned =>
         \A i \in 1..(Len(result) - 1) :
           /\ In(FollowingPhone(result, i), _trigger_devoicing) => ~In(result[i], _voiced)
           /\ In(FollowingPhone(result, i), _trigger_voicing) => ~In(result[i], _devoiced)
    /\ (pc = "loop" /\ k >= 1) =>
         /\ previous_phone # " "
         /\ previous_phone = (IF result[1] = " " THEN result[2] ELSE result[1])

\* A character of the devoiced set has been voiced before a voicing trigger
\* that stands across a space, in an input that also held a voiced character
\* the scan left voiced.
C10_Witness ==
  /\ AssimReturned /\ SingleSpaced(string) /\ NoTrailingSpace(string)
  /\ \E i \in 1..(Len(result) - 2) :
       /\ In(string[i], _devoiced) /\ In(result[i], _voiced)
       /\ result[i + 1] = " "
       /\ In(string[i + 2], _voiced) /\ In(result[i + 2], _trigger_voicing)

\* normalize has returned and fon is what it returned.
NormalizeReturned ==
  \/ call = "normalize" /\ pc = "done"
  \/ call = "_transcribe" /\ pc = "_init_scp"

\* _postprocess has returned and fon is what it returned.
PostprocessReturned == call \in {"_postprocess", "_transcribe"} /\ pc = "done"

\* C1: when a word ends in a character of the devoiced set and, after exactly
\* one space, the next word begins with a voicing trigger in the output, the
\* character is emitted as its voiced counterpart (x as gamma, c-caron as the
\* compact symbol); and the constructor transcribes the sentence of
\* test_complex to the string the test expects.
C1_VoicingCrossesSpace ==
  /\ AssimReturned =>
       /\ Len(result) = Len(string)
       /\ \A i \in 1..(Len(string) - 2) :
            ( /\ In(string[i], _devoiced)
              /\ string[i + 1] = " "
              /\ string[i + 2] # " "
              /\ In(result[i + 2], _trigger_voicing) ) =>
              /\ result[i] = translate(string[i], _devoiced2voiced)
              /\ In(result[i], _voiced)
              /\ string[i] = "x" => result[i] = "gh"
              /\ string[i] = "c^" => result[i] = "dZ"
  /\ (call = "_transcribe" /\ input = Sentence /\ pc = "done") => fon = fon_expected

\* The constructor has transcribed the sentence of test_complex: in it x was
\* voiced before " b" and c-caron before " d".
C1_Witness ==
  /\ call = "_transcribe" /\ input = Sentence /\ pc = "done"
  /\ fon = fon_expected
  /\ \E i \in 1..(Len(string) - 2) :
       string[i] = "x" /\ string[i + 1] = " " /\ result[i] = "gh"
  /\ \E i \in 1..(Len(string) - 2) :
       string[i] = "c^" /\ string[i + 1] = " " /\ result[i] = "dZ"

\* C5 as stated: whatever method is called, the two tables it uses are inverses
\* of each other, on every member of the voiced set and on every member of the
\* devoiced set.
C5_ExactInverses ==
  /\ call \in Calls
  /\ \A v \in Range(_voiced) :
       translate(translate(v, _voiced2devoiced), _devoiced2voiced) = v
  /\ \A d \in Range(_devoiced) :
       translate(translate(d, _devoiced2voiced), _voiced2devoiced) = d

\* C5 as amended: whatever method is called, devoicing undoes voicing on every member of the devoiced set;
\* voicing undoes devoicing on every member of the voiced set but h, which
\* devoices to x as gamma does, while x is voiced to gamma.
C5_InversesButForH ==
  /\ call \in Calls
  /\ \A d \in Range(_devoiced) :
       /\ In(translate(d, _devoiced2voiced), _voiced)
       /\ translate(d, _devoiced2voiced) # "h"
       /\ translate(translate(d, _devoiced2voiced), _voiced2devoiced) = d
  /\ \A v \in Range(_voiced) \ {"h"} :
       /\ In(translate(v, _voiced2devoiced), _devoiced)
       /\ translate(translate(v, _voiced2devoiced), _devoiced2voiced) = v
  /\ translate("h", _voiced2devoiced) = "x"
  /\ translate(translate("h", _voiced2devoiced), _devoiced2voiced) = "gh"

\* The scan has applied both tables in turn to an h: devoiced at the end of a
\* word and voiced again before the next word, it came out as gamma.
C5_Witness ==
  /\ AssimReturned
  /\ \E i \in 1..Len(string) : string[i] = "h" /\ result[i] = "gh"

\* The output of normalize: no whitespace at either end, no whitespace but the
\* space, no two spaces in a row, no word character next to a non-word
\* character other than the space.
Canonical(s) ==
  /\ s # <<>> => (s[1] \notin Whitespace /\ s[Len(s)] \notin Whitespace)
  /\ \A i \in 1..Len(s) : s[i] \in Whitespace => s[i] = " "
  /\ \A i \in 1..(Len(s) - 1) :
       /\ ~(s[i] = " " /\ s[i + 1] = " ")
       /\ ~(s[i] \in Word /\ s[i + 1] \in NonWord \ Whitespace)
       /\ ~(s[i] \in NonWord \ Whitespace /\ s[i + 1] \in Word)

\* C7: what normalize returns is in canonical form, and is empty for the empty
\* string; and the string the constructor hands to _voicing_assim is
\* single-space separated, with no space at either end.
C7_NormalizerCanonicalForm ==
  /\ NormalizeReturned => (Canonical(fon) /\ (input = <<>> => fon = <<>>))
  /\ (call = "_transcribe" /\ (pc = "loop" \/ AssimReturned)) =>
       /\ SingleSpaced(string)
       /\ \A i \in 1..Len(string) : string[i] \in Whitespace => string[i] = " "
       /\ string # <<>> => (string[1] # " " /\ string[Len(string)] # " ")

\* normalize has returned for a raw string that began with a tabulator and
\* held a punctuation mark right after a word character.
C7_Witness ==
  /\ call = "normalize" /\ pc = "done"
  /\ input # <<>> /\ input[1] = "TAB"
  /\ \E i \in 1..(Len(input) - 1) : input[i] \in Word /\ input[i + 1] = "."
  /\ Canonical(fon)

\* C8: normalize applied to what normalize returned returns it unchanged.
C8_NormalizeIdempotent == NormalizeReturned => normalize(fon) = fon

\* normalize has changed a raw string that mixes a capital letter, a
\* punctuation mark and whitespace.
C8_Witness ==
  /\ call = "normalize" /\ pc = "done"
  /\ {"A", "."} \subseteq Range(input)
  /\ Range(input) \cap Whitespace # {}
  /\ fon # input
  /\ fon # <<>>

\* C9: _postprocess applied to what _postprocess returned returns it
\* unchanged, and what it returned holds neither the compact symbol nor the
\* placeholder x.
C9_PostprocessIdempotent ==
  PostprocessReturned =>
    /\ _postprocess(fon) = fon
    /\ "dZ" \notin Range(fon)
    /\ "x" \notin Range(fon)

\* _postprocess has returned for a string that held both the compact symbol
\* and the placeholder.
C9_Witness ==
  /\ call = "_postprocess" /\ pc = "done"
  /\ {"dZ", "x"} \subseteq Range(input)
  /\ fon # input

====
